---- MODULE Spec2Model ----
(***************************************************************************)
(* Model of the request handlers and of the fixture-scope examples of the  *)
(* repository:                                                             *)
(*   src/src/lambda_function.py   create-user handler (lambda_handler)     *)
(*   src/src/user_handler.py      user-lookup handler (handler)            *)
(*   src/tests/test_fixtures.py   fixture scopes (counter, dynamodb_table) *)
(* Text is a sequence of one-character strings, so that parsing and        *)
(* encoding are computed, character by character.                          *)
(***************************************************************************)
EXTENDS Integers, Sequences, FiniteSets, TLC

VARIABLES
    cu_event,      \* lambda_function: the event of the latest invocation
    cu_response,   \* lambda_function: what that invocation returned
    cu_logs,       \* lambda_function: the log lines that invocation wrote
    pc,            \* user_handler: position of the running invocation
    event,         \* user_handler: the event being handled
    context,       \* user_handler: the context object being handled
    correlation_id,\* user_handler: local variable correlation_id
    request,       \* user_handler: local variable request (UserRequest)
    user_data,     \* user_handler: local variable user_data
    metric_set,    \* user_handler: metrics buffered by Metrics.add_metric
    flushed,       \* user_handler: the metrics the latest flush published
    logs,          \* user_handler: log lines of the running invocation
    trace,         \* user_handler: annotations/metadata put on the trace
    result,        \* user_handler: how the latest invocation ended
    uuid_issued,   \* user_handler: the identifiers uuid4 has returned, in order
    invocations,   \* user_handler: number of invocations started
    fx_pending,    \* pytest: the collected tests not yet started, in run order
    fx_current,    \* pytest: the test being run ("none" between tests)
    fx_phase,      \* pytest: "collect", "idle", "setup", "call" or "teardown"
    fx_cache,      \* pytest: the live instance of each fixture
    fx_outcome,    \* pytest: outcome of each test
    fx_seen,       \* pytest: the fixture value each test was given
    fx_finished    \* pytest: the tests that have run, in order

vars == <<cu_event, cu_response, cu_logs, pc, event, context, correlation_id,
          request, user_data, metric_set, flushed, logs, trace, result,
          uuid_issued, invocations, fx_pending, fx_current, fx_phase,
          fx_cache, fx_outcome, fx_seen, fx_finished>>

cuVars == <<cu_event, cu_response, cu_logs>>
uhVars == <<pc, event, context, correlation_id, request, user_data,
            metric_set, flushed, logs, trace, result, uuid_issued,
            invocations>>
fxVars == <<fx_pending, fx_current, fx_phase, fx_cache, fx_outcome, fx_seen,
            fx_finished>>

(***************************************************************************)
(* Text helpers.                                                           *)
(***************************************************************************)
Digits == <<"0", "1", "2", "3", "4", "5", "6", "7", "8", "9">>

IsDigit(c) == \E i \in 1..10 : Digits[i] = c

DigitValue(c) == (CHOOSE i \in 1..10 : Digits[i] = c) - 1

RECURSIVE EncodeNat(_)
EncodeNat(n) ==
    IF n < 10 THEN <<Digits[n + 1]>>
    ELSE EncodeNat(n \div 10) \o <<Digits[(n % 10) + 1]>>

RECURSIVE DecodeNat(_)
DecodeNat(t) ==
    IF Len(t) = 0 THEN 0
    ELSE 10 * DecodeNat(SubSeq(t, 1, Len(t) - 1)) + DigitValue(t[Len(t)])

AllDigits(t) == Len(t) > 0 /\ \A i \in 1..Len(t) : IsDigit(t[i])

EncodeInt(i) == IF i < 0 THEN <<"-">> \o EncodeNat(0 - i) ELSE EncodeNat(i)

Tail1(t) == SubSeq(t, 2, Len(t))

(***************************************************************************)
(* JSON values as json.loads builds them (Python objects).  A value is a   *)
(* record [k, s, n]: k the Python type; s the text of a str, or the        *)
(* fractional digits of a float; n the number of an int or bool, or the    *)
(* integral part of a float.                                               *)
(***************************************************************************)
Val(k, s, n) == [k |-> k, s |-> s, n |-> n]

Absent == Val("absent", <<>>, 0)
JNull == Val("NoneType", <<>>, 0)
JBool(b) == Val("bool", <<>>, IF b THEN 1 ELSE 0)
JInt(i) == Val("int", <<>>, i)
JFloat(i, frac) == Val("float", frac, i)
JStr(t) == Val("str", t, 0)
JList == Val("list", <<>>, 0)

\* A decoded body: a dict with its items, or a value that is no dict.
PyDict(items) == [k |-> "dict", items |-> items]
PyOther(k) == [k |-> k, items |-> <<>>]

UserFields == <<"name", "email", "age">>

MkItems(n, e, a, x) ==
    LET given == [f \in {"name", "email", "age", "extra"} |->
                    CASE f = "name" -> n
                      [] f = "email" -> e
                      [] f = "age" -> a
                      [] OTHER -> x]
    IN [f \in {g \in DOMAIN given : given[g] # Absent} |-> given[f]]

(***************************************************************************)
(* The inputs: field values a JSON body can carry, and the bodies.         *)
(***************************************************************************)
NameValues ==
    {Absent, JStr(<<"J", "o">>), JStr(<<>>), JStr(<<"a", "\"", "\\">>)}

EmailValues == {Absent, JStr(<<"j", "@", "x">>), JNull}

AgeValues ==
    {Absent, JInt(30), JInt(0 - 7), JInt(1234),
     JStr(<<"3", "0">>), JStr(<<"-", "7">>), JStr(<<"+", "5">>),
     JStr(<<"3", "x">>),
     JFloat(30, <<"0">>), JFloat(30, <<"5">>),
     JBool(TRUE), JNull, JList}

ExtraValues == {Absent, JStr(<<"x">>)}

DictBodies ==
    {PyDict(MkItems(n, e, a, x)) :
        n \in NameValues, e \in EmailValues, a \in AgeValues, x \in ExtraValues}

OtherBodies == {PyOther(k) : k \in {"list", "str", "int", "float", "bool", "NoneType"}}

\* event["body"]: None, text that is no JSON, or the JSON text of a value.
BodyNone == [k |-> "NoneType", json |-> FALSE, value |-> PyOther("NoneType")]
BodyNotJson == [k |-> "str", json |-> FALSE, value |-> PyOther("NoneType")]
BodyJson(v) == [k |-> "str", json |-> TRUE, value |-> v]

Bodies == {BodyNone, BodyNotJson} \cup {BodyJson(v) : v \in DictBodies \cup OtherBodies}

CuEvents ==
    {[has_body |-> FALSE, body |-> BodyNone]} \cup
    {[has_body |-> TRUE, body |-> b] : b \in Bodies}

(***************************************************************************)
(* json.loads of the body (lambda_function.py line 22).  A body text is    *)
(* kept as what the decoder makes of it: an error or the decoded value.    *)
(***************************************************************************)
NoException == [type |-> "none", text |-> ""]

JsonLoads(body) ==
    IF body.k # "str"
    THEN [exc |-> [type |-> "TypeError",
                   text |-> "the JSON object must be str, bytes or bytearray, not NoneType"],
          value |-> PyOther("NoneType")]
    ELSE IF ~body.json
    THEN [exc |-> [type |-> "JSONDecodeError",
                   text |-> "Expecting value: line 1 column 1 (char 0)"],
          value |-> PyOther("NoneType")]
    ELSE [exc |-> NoException, value |-> body.value]

\* event.get("body", "{}"): the default is the text of the empty object.
EventBody(ev) == IF ev.has_body THEN ev.body ELSE BodyJson(PyDict(<<>>))

(***************************************************************************)
(* The User model (lines 9-13), validated as pydantic validates: str takes *)
(* a str only; int takes an int, a bool, a float without fraction and a    *)
(* str that reads as an integer.                                           *)
(***************************************************************************)
StrAsInt(t) ==
    LET signed == Len(t) > 0 /\ t[1] \in {"-", "+"}
        digits == IF signed THEN Tail1(t) ELSE t
    IN IF AllDigits(digits)
       THEN [ok |-> TRUE,
             n |-> IF signed /\ t[1] = "-" THEN 0 - DecodeNat(digits)
                   ELSE DecodeNat(digits)]
       ELSE [ok |-> FALSE, n |-> 0]

Zeros(t) == \A i \in 1..Len(t) : t[i] = "0"

ValidateStrField(v) ==
    IF v.k = "str" THEN [err |-> "none", value |-> v]
    ELSE [err |-> "string_type", value |-> v]

ValidateIntField(v) ==
    CASE v.k = "int" -> [err |-> "none", value |-> JInt(v.n)]
      [] v.k = "bool" -> [err |-> "none", value |-> JInt(v.n)]
      [] v.k = "float" ->
            IF Zeros(v.s) THEN [err |-> "none", value |-> JInt(v.n)]
            ELSE [err |-> "int_from_float", value |-> v]
      [] v.k = "str" ->
            IF StrAsInt(v.s).ok
            THEN [err |-> "none", value |-> JInt(StrAsInt(v.s).n)]
            ELSE [err |-> "int_parsing", value |-> v]
      [] OTHER -> [err |-> "int_type", value |-> v]

DefaultedField(f, items) ==
    IF f \in DOMAIN items
    THEN IF f = "age" THEN ValidateIntField(items[f]) ELSE ValidateStrField(items[f])
    ELSE [err |-> "none", value |-> IF f = "age" THEN JInt(0) ELSE JStr(<<>>)]

ValidateField(f, items) ==
    IF f \notin DOMAIN items THEN [err |-> "missing", value |-> Absent]
    ELSE IF f = "age" THEN ValidateIntField(items[f])
    ELSE ValidateStrField(items[f])

RECURSIVE ErrorsFrom(_, _)
ErrorsFrom(i, items) ==
    IF i > Len(UserFields) THEN <<>>
    ELSE LET r == ValidateField(UserFields[i], items)
         IN (IF r.err = "none" THEN <<>>
             ELSE <<[type |-> r.err, loc |-> UserFields[i]]>>)
            \o ErrorsFrom(i + 1, items)

NoUser == [name |-> Absent, email |-> Absent, age |-> Absent]

\* User(**body) (line 25): a TypeError when body is no mapping, else the
\* validated model or a ValidationError with one entry per failing field.
User(body) ==
    IF body.k # "dict"
    THEN [exc |-> [type |-> "TypeError",
                   text |-> "argument after ** must be a mapping"],
          errors |-> <<>>, model |-> NoUser]
    ELSE LET errs == ErrorsFrom(1, body.items)
         IN IF Len(errs) > 0
            THEN [exc |-> [type |-> "ValidationError",
                           text |-> "validation errors for User"],
                  errors |-> errs, model |-> NoUser]
            ELSE [exc |-> NoException, errors |-> <<>>,
                  model |-> [f \in {"name", "email", "age"} |->
                                ValidateField(f, body.items).value]]

\* user.model_dump() (lines 27, 33): the fields as the model holds them.
ModelDump(model) == model

(***************************************************************************)
(* json.dumps of the response body (lines 31-34, 41, 48) and the decoding  *)
(* a caller does of it.  Scalars are encoded to text and parsed back.      *)
(***************************************************************************)
RECURSIVE EscapeText(_)
EscapeText(t) ==
    IF Len(t) = 0 THEN <<>>
    ELSE (IF t[1] \in {"\"", "\\"} THEN <<"\\", t[1]>> ELSE <<t[1]>>)
         \o EscapeText(Tail1(t))

RECURSIVE UnescapeText(_)
UnescapeText(t) ==
    IF Len(t) = 0 THEN <<>>
    ELSE IF t[1] = "\\" /\ Len(t) > 1
         THEN <<t[2]>> \o UnescapeText(SubSeq(t, 3, Len(t)))
         ELSE <<t[1]>> \o UnescapeText(Tail1(t))

JsonDumpsRaw(v) ==
    IF v.k = "str" THEN <<"\"">> \o v.s \o <<"\"">> ELSE EncodeInt(v.n)

JsonDumpsValue(v) ==
    IF v.k = "str" THEN <<"\"">> \o EscapeText(v.s) \o <<"\"">>
    ELSE EncodeInt(v.n)

\* The end of a JSON string that starts at t[1]: the first unescaped quote.
RECURSIVE StringEnd(_, _)
StringEnd(t, i) ==
    IF i > Len(t) THEN 0
    ELSE IF t[i] = "\\" THEN StringEnd(t, i + 2)
    ELSE IF t[i] = "\"" THEN i
    ELSE StringEnd(t, i + 1)

JsonLoadsValue(t) ==
    IF Len(t) > 0 /\ t[1] = "\""
    THEN IF StringEnd(t, 2) = Len(t)
         THEN JStr(UnescapeText(SubSeq(t, 2, Len(t) - 1)))
         ELSE Val("invalid", t, 0)
    ELSE IF StrAsInt(t).ok /\ (Len(t) = 0 \/ t[1] # "+")
         THEN JInt(StrAsInt(t).n)
         ELSE Val("invalid", t, 0)

NoText == [name |-> <<>>, email |-> <<>>, age |-> <<>>]

DumpUser(model) == [f \in {"name", "email", "age"} |-> JsonDumpsValue(model[f])]

\* A response body: the keys of the JSON object and the value under each.
Body(keys, message, user, error, details) ==
    [keys |-> keys, message |-> message, user |-> user, error |-> error,
     details |-> details]

Response(status, body) == [statusCode |-> status, body |-> body]

NoResponse == Response(0, Body({}, "", NoText, "", <<>>))

LogLine(level, message, extra) == [level |-> level, message |-> message, extra |-> extra]

(***************************************************************************)
(* lambda_handler (lines 16-49).                                           *)
(***************************************************************************)
HandleLeaking(e) ==
    [response |-> Response(500, Body({"error"}, "", NoText, e.text, <<>>)),
     logs |-> <<LogLine("ERROR", "Unexpected error", e.text)>>]

HandleException(e) ==
    [response |-> Response(500, Body({"error"}, "", NoText,
                                     "Internal server error", <<>>)),
     logs |-> <<LogLine("ERROR", "Unexpected error", e.text)>>]

HandleValidationError(v) ==
    [response |-> Response(400, Body({"error", "details"}, "", NoText,
                                     "Invalid input", v.errors)),
     logs |-> <<LogLine("ERROR", "Validation error", v.exc.text)>>]

lambda_handler(ev) ==
    LET loaded == JsonLoads(EventBody(ev))
        user == User(loaded.value)
    IN IF loaded.exc.type # "none" THEN HandleException(loaded.exc)
       ELSE IF user.exc.type = "ValidationError" THEN HandleValidationError(user)
       ELSE IF user.exc.type # "none" THEN HandleException(user.exc)
       ELSE [response |->
                Response(201, Body({"message", "user"},
                                   "User created successfully",
                                   DumpUser(ModelDump(user.model)), "", <<>>)),
             logs |-> <<LogLine("INFO", "User created", "")>>]

LambdaHandler ==
    \E ev \in CuEvents :
        /\ cu_event' = ev
        /\ cu_response' = lambda_handler(ev).response
        /\ cu_logs' = lambda_handler(ev).logs
        /\ UNCHANGED <<uhVars, fxVars>>

(***************************************************************************)
(* user_handler.py: the inputs of handler(event, context).                 *)
(***************************************************************************)
MaxInvocations == 3

MinLength == 1
MaxLength == 50

Repeat(c, n) == [i \in 1..n |-> c]

\* A value looked up in a mapping: .get gives None when the key is absent.
Got(t) == [present |-> TRUE, v |-> t]
Missing == [present |-> FALSE, v |-> <<>>]

\* Python truth of what .get returned: None and "" are false.
Truthy(x) == x.present /\ Len(x.v) > 0

HeaderValues == {Missing, Got(<<>>), Got(<<"c", "A">>)}
RequestIdValues == {Missing, Got(<<"r", "1">>)}

\* event["headers"], event["requestContext"]: absent, None or a mapping.
HeadersInputs ==
    {[k |-> "absent", corr |-> Missing], [k |-> "NoneType", corr |-> Missing]}
    \cup {[k |-> "dict", corr |-> h] : h \in HeaderValues}

RequestContextInputs ==
    {[k |-> "absent", requestId |-> Missing], [k |-> "NoneType", requestId |-> Missing]}
    \cup {[k |-> "dict", requestId |-> r] : r \in RequestIdValues}

UserIdLengths ==
    {0, MinLength, MinLength + 1, MaxLength - 1, MaxLength, MaxLength + 1, MaxLength + 2}

UserIdValues ==
    {Absent, JNull, JInt(7), JStr(Repeat("b", MinLength))}
    \cup {JStr(Repeat("a", n)) : n \in UserIdLengths}

\* event["pathParameters"]: absent, None, a non-empty list, or a mapping.
PathParametersInputs ==
    {[k |-> "absent", user_id |-> Absent], [k |-> "NoneType", user_id |-> Absent],
     [k |-> "list", user_id |-> Absent]}
    \cup {[k |-> "dict", user_id |-> u] : u \in UserIdValues}

Events ==
    [headers : HeadersInputs, requestContext : RequestContextInputs,
     pathParameters : PathParametersInputs]

\* The context object: whether it carries the attribute request_id that the
\* handler reads (tests/conftest.py's MockContext carries aws_request_id only).
Contexts == [has_request_id : BOOLEAN]

NoEvent ==
    [headers |-> [k |-> "absent", corr |-> Missing],
     requestContext |-> [k |-> "absent", requestId |-> Missing],
     pathParameters |-> [k |-> "absent", user_id |-> Absent]]

NoRequest == [ok |-> FALSE, user_id |-> <<>>]
NoUserData == [set |-> FALSE, user_id |-> <<>>, name |-> "", email |-> ""]

MetricNames == {"RequestCount", "SuccessCount", "ValidationErrors", "ServerErrors"}
NoMetrics == [m \in MetricNames |-> 0]

\* metrics.add_metric(name=..., unit=MetricUnit.Count, value=1)
AddMetric(ms, name) == [ms EXCEPT ![name] = @ + 1]

UhBody(keys, user_id, name, email, status, error, details) ==
    [keys |-> keys, user_id |-> user_id, name |-> name, email |-> email,
     status |-> status, error |-> error, details |-> details]

UhResponse(status, content_type, corr, body) ==
    [statusCode |-> status,
     headers |-> [keys |-> IF content_type = "" THEN {"X-Correlation-Id"}
                           ELSE {"Content-Type", "X-Correlation-Id"},
                  content_type |-> content_type, correlation |-> corr],
     body |-> body]

NoUhResponse == UhResponse(0, "", <<>>, UhBody({}, <<>>, "", "", "", "", <<>>))

NoResult == [kind |-> "none", exc |-> "", response |-> NoUhResponse]
Raised(exc) == [kind |-> "raised", exc |-> exc, response |-> NoUhResponse]
Returned(r) == [kind |-> "response", exc |-> "", response |-> r]

\* str(uuid4()): an identifier no earlier call has returned.
Uuid4(n) == <<"u">> \o EncodeNat(n + 1)

(***************************************************************************)
(* handler (user_handler.py lines 37-151), step by step.                   *)
(***************************************************************************)
\* Lines 53-57.  `or` evaluates its right operand only when the left one is
\* false; .get on None raises AttributeError.
ResolveCorrelationId(ev, n) ==
    IF ev.headers.k = "NoneType"
    THEN [exc |-> "AttributeError", id |-> <<>>, generated |-> FALSE]
    ELSE IF Truthy(ev.headers.corr)
    THEN [exc |-> "", id |-> ev.headers.corr.v, generated |-> FALSE]
    ELSE IF ev.requestContext.k = "NoneType"
    THEN [exc |-> "AttributeError", id |-> <<>>, generated |-> FALSE]
    ELSE IF Truthy(ev.requestContext.requestId)
    THEN [exc |-> "", id |-> ev.requestContext.requestId.v, generated |-> FALSE]
    ELSE [exc |-> "", id |-> Uuid4(n), generated |-> TRUE]

\* UserRequest (lines 28-29): user_id: str, min_length=1, max_length=50.
UserRequest(v) ==
    IF v.k # "str" THEN [err |-> "string_type", user_id |-> <<>>]
    ELSE IF Len(v.s) < MinLength THEN [err |-> "string_too_short", user_id |-> <<>>]
    ELSE IF Len(v.s) > MaxLength THEN [err |-> "string_too_long", user_id |-> <<>>]
    ELSE [err |-> "", user_id |-> v.s]

\* Lines 81-82: path_params = event.get("pathParameters") or {}, then
\* path_params.get("user_id", "").
PathUserId(ev) ==
    IF ev.pathParameters.k = "dict" /\ ev.pathParameters.user_id # Absent
    THEN ev.pathParameters.user_id
    ELSE JStr(<<>>)

\* Where control goes from the try block's validation (lines 82-85, 117, 135).
AlwaysLookup(ev) == "lookup"

AfterValidation(ev) ==
    IF ev.pathParameters.k = "list" THEN "except_exception"
    ELSE IF UserRequest(PathUserId(ev)).err # "" THEN "except_validation"
    ELSE "lookup"

\* The decorators are entered (lines 38-40) with a new event and context.
Invoke ==
    /\ pc \in {"idle", "done"}
    /\ invocations < MaxInvocations
    /\ \E ev \in Events, ctx \in Contexts :
        /\ event' = ev
        /\ context' = ctx
    /\ invocations' = invocations + 1
    /\ pc' = "correlation"
    /\ correlation_id' = <<>>
    /\ request' = NoRequest
    /\ user_data' = NoUserData
    /\ logs' = <<>>
    /\ trace' = {}
    /\ result' = NoResult
    /\ UNCHANGED <<metric_set, flushed, uuid_issued, cuVars, fxVars>>

\* Lines 53-60: the correlation id, appended to the logger's keys.
ResolveCorrelation ==
    /\ pc = "correlation"
    /\ LET r == ResolveCorrelationId(event, Len(uuid_issued))
       IN IF r.exc # ""
          THEN /\ result' = Raised(r.exc)
               /\ pc' = "flush"
               /\ UNCHANGED <<correlation_id, uuid_issued>>
          ELSE /\ correlation_id' = r.id
               /\ uuid_issued' = IF r.generated THEN Append(uuid_issued, r.id)
                                 ELSE uuid_issued
               /\ pc' = "log_start"
               /\ UNCHANGED result
    /\ UNCHANGED <<event, context, request, user_data, metric_set, flushed, logs,
                   trace, invocations, cuVars, fxVars>>

\* Lines 63-74: "Request received"; reads context.request_id.
LogRequestReceived ==
    /\ pc = "log_start"
    /\ IF ~context.has_request_id
       THEN /\ result' = Raised("AttributeError")
            /\ pc' = "flush"
            /\ UNCHANGED logs
       ELSE /\ logs' = Append(logs, [level |-> "INFO", message |-> "Request received",
                                     correlation_id |-> correlation_id])
            /\ pc' = "count"
            /\ UNCHANGED result
    /\ UNCHANGED <<event, context, correlation_id, request, user_data, metric_set,
                   flushed, trace, uuid_issued, invocations, cuVars, fxVars>>

\* Line 77.
AddRequestCount ==
    /\ pc = "count"
    /\ metric_set' = AddMetric(metric_set, "RequestCount")
    /\ pc' = "validate"
    /\ UNCHANGED <<event, context, correlation_id, request, user_data, flushed, logs,
                   trace, result, uuid_issued, invocations, cuVars, fxVars>>

\* Lines 80-82: parse and validate the request.
ParseAndValidate ==
    /\ pc = "validate"
    /\ pc' = AfterValidation(event)
    /\ request' = IF UserRequest(PathUserId(event)).err = ""
                     /\ event.pathParameters.k # "list"
                  THEN [ok |-> TRUE, user_id |-> UserRequest(PathUserId(event)).user_id]
                  ELSE NoRequest
    /\ UNCHANGED <<event, context, correlation_id, user_data, metric_set, flushed,
                   logs, trace, result, uuid_issued, invocations,
                   cuVars, fxVars>>

\* get_user_from_database (lines 154-173), called at line 85.
GetUserFromDatabase ==
    /\ pc = "lookup"
    /\ trace' = trace \cup {[kind |-> "annotation", key |-> "user_id",
                             namespace |-> ""],
                            [kind |-> "metadata", key |-> "operation",
                             namespace |-> "database"]}
    /\ logs' = Append(logs, [level |-> "DEBUG",
                             message |-> "Fetching user from database",
                             correlation_id |-> correlation_id])
    /\ user_data' = [set |-> TRUE, user_id |-> request.user_id,
                     name |-> "John Doe", email |-> "john@example.com"]
    /\ pc' = "success"
    /\ UNCHANGED <<event, context, correlation_id, request, metric_set, flushed,
                   result, uuid_issued, invocations, cuVars, fxVars>>

\* Lines 88-114: the response, the success metric and log, return 200.
ReturnSuccess ==
    /\ pc = "success"
    /\ metric_set' = AddMetric(metric_set, "SuccessCount")
    /\ logs' = Append(logs, [level |-> "INFO", message |-> "Request successful",
                             correlation_id |-> correlation_id])
    /\ result' = Returned(UhResponse(200, "application/json", correlation_id,
                    UhBody({"user_id", "name", "email", "status"},
                           user_data.user_id, user_data.name, user_data.email,
                           "active", "", <<>>)))
    /\ pc' = "flush"
    /\ UNCHANGED <<event, context, correlation_id, request, user_data, flushed,
                   trace, uuid_issued, invocations, cuVars, fxVars>>

\* Lines 117-133: except ValidationError.
ExceptValidationError ==
    /\ pc = "except_validation"
    /\ logs' = Append(logs, [level |-> "WARNING", message |-> "Validation error",
                             correlation_id |-> correlation_id])
    /\ metric_set' = AddMetric(metric_set, "ValidationErrors")
    /\ result' = Returned(UhResponse(400, "", correlation_id,
                    UhBody({"error", "details"}, <<>>, "", "", "", "Invalid request",
                           <<UserRequest(PathUserId(event)).err>>)))
    /\ pc' = "flush"
    /\ UNCHANGED <<event, context, correlation_id, request, user_data, flushed,
                   trace, uuid_issued, invocations, cuVars, fxVars>>

\* Lines 135-151: except Exception.
ExceptException ==
    /\ pc = "except_exception"
    /\ logs' = Append(logs, [level |-> "ERROR", message |-> "Unhandled exception",
                             correlation_id |-> correlation_id])
    /\ metric_set' = AddMetric(metric_set, "ServerErrors")
    /\ result' = Returned(UhResponse(500, "", correlation_id,
                    UhBody({"error"}, <<>>, "", "", "", "Internal server error", <<>>)))
    /\ pc' = "flush"
    /\ UNCHANGED <<event, context, correlation_id, request, user_data, flushed,
                   trace, uuid_issued, invocations, cuVars, fxVars>>

\* Line 40: log_metrics publishes and clears the buffered metrics as the
\* invocation ends, returning or raising.
LogMetricsFlush ==
    /\ pc = "flush"
    /\ flushed' = metric_set
    /\ metric_set' = NoMetrics
    /\ pc' = "done"
    /\ UNCHANGED <<event, context, correlation_id, request, user_data, logs, trace,
                   result, uuid_issued, invocations, cuVars, fxVars>>

(***************************************************************************)
(* tests/test_fixtures.py run by pytest: the tests of the module in any    *)
(* order, each fixture set up when a test asks for it and torn down when   *)
(* the run leaves the fixture's scope.                                     *)
(***************************************************************************)
Tests ==
    {"test_increment_1", "test_increment_2", "test_add_user",
     "test_add_another_user", "test_put_item", "test_get_item"}

Fixtures == {"counter", "database", "dynamodb_table"}

\* The fixture each test takes as its argument.
FixtureOf(t) ==
    CASE t \in {"test_increment_1", "test_increment_2"} -> "counter"
      [] t \in {"test_add_user", "test_add_another_user"} -> "database"
      [] OTHER -> "dynamodb_table"

ClassOf(t) ==
    IF t \in {"test_add_user", "test_add_another_user"} THEN "TestUserOperations"
    ELSE "module"

\* The scope each fixture declares.
ScopeAllModule(f) == "module"

FixtureScope(f) ==
    CASE f = "counter" -> "function"
      [] f = "database" -> "class"
      [] OTHER -> "module"

Dead == [live |-> FALSE, count |-> 0, users |-> <<>>, items |-> {}]

\* What each fixture function builds: {"count": 0}, {"users": []}, an
\* empty table Users.
Fresh(f) == [live |-> TRUE, count |-> 0, users |-> <<>>, items |-> {}]

Observed(f, inst) ==
    CASE f = "counter" -> inst.count
      [] f = "database" -> Len(inst.users)
      [] OTHER -> Cardinality(inst.items)

\* table.put_item: the item replaces any item with the same key.
PutItem(items, item) == {i \in items : i.id # item.id} \cup {item}

\* The body of each test: the fixture instance it leaves.
TestBody(t, inst) ==
    CASE t \in {"test_increment_1", "test_increment_2"} ->
            [inst EXCEPT !.count = @ + 1]
      [] t = "test_add_user" -> [inst EXCEPT !.users = Append(@, "Alice")]
      [] t = "test_add_another_user" -> [inst EXCEPT !.users = Append(@, "Bob")]
      [] t = "test_put_item" ->
            [inst EXCEPT !.items = PutItem(@, [id |-> "1", name |-> "Alice"])]
      [] OTHER -> inst

\* The assertion of each test, on the instance its body leaves.
TestPasses(t, inst) ==
    CASE t \in {"test_increment_1", "test_increment_2"} -> inst.count = 1
      [] t = "test_add_user" -> Len(inst.users) = 1
      [] t = "test_add_another_user" -> Len(inst.users) = 2
      [] t = "test_put_item" -> TRUE
      [] OTHER -> \E i \in inst.items : i.id = "1" /\ i.name = "Alice"

\* Whether the run leaves fixture f's scope between test cur and test next.
ExitsScope(f, cur, next) ==
    CASE FixtureScope(f) = "function" -> TRUE
      [] FixtureScope(f) = "class" -> next = "none" \/ ClassOf(next) # ClassOf(cur)
      [] OTHER -> next = "none"

Orders ==
    {o \in [1..Cardinality(Tests) -> Tests] : \A i, j \in DOMAIN o : o[i] = o[j] => i = j}

NotRun == 0 - 1

\* Collection: the tests of the module, in the order the run will take.
Collect ==
    /\ fx_phase = "collect"
    /\ fx_pending' \in Orders
    /\ fx_phase' = "idle"
    /\ UNCHANGED <<fx_current, fx_cache, fx_outcome, fx_seen, fx_finished,
                   cuVars, uhVars>>

StartTest ==
    /\ fx_phase = "idle"
    /\ fx_pending # <<>>
    /\ fx_current' = Head(fx_pending)
    /\ fx_pending' = Tail(fx_pending)
    /\ fx_phase' = "setup"
    /\ UNCHANGED <<fx_cache, fx_outcome, fx_seen, fx_finished, cuVars, uhVars>>

\* Setup: the live instance of the fixture is reused, else one is built.
SetupFixture ==
    /\ fx_phase = "setup"
    /\ LET f == FixtureOf(fx_current)
           inst == IF fx_cache[f].live THEN fx_cache[f] ELSE Fresh(f)
       IN /\ fx_cache' = [fx_cache EXCEPT ![f] = inst]
          /\ fx_seen' = [fx_seen EXCEPT ![fx_current] = Observed(f, inst)]
    /\ fx_phase' = "call"
    /\ UNCHANGED <<fx_pending, fx_current, fx_outcome, fx_finished, cuVars, uhVars>>

CallTest ==
    /\ fx_phase = "call"
    /\ LET f == FixtureOf(fx_current)
           inst == TestBody(fx_current, fx_cache[f])
       IN /\ fx_cache' = [fx_cache EXCEPT ![f] = inst]
          /\ fx_outcome' = [fx_outcome EXCEPT ![fx_current] =
                               IF TestPasses(fx_current, inst) THEN "passed"
                               ELSE "failed"]
    /\ fx_finished' = Append(fx_finished, fx_current)
    /\ fx_phase' = "teardown"
    /\ UNCHANGED <<fx_pending, fx_current, fx_seen, cuVars, uhVars>>

\* Teardown towards the next test: every live fixture whose scope ends.
Teardown ==
    /\ fx_phase = "teardown"
    /\ LET next == IF fx_pending = <<>> THEN "none" ELSE Head(fx_pending)
       IN fx_cache' = [f \in Fixtures |->
                         IF fx_cache[f].live /\ ExitsScope(f, fx_current, next)
                         THEN Dead ELSE fx_cache[f]]
    /\ fx_current' = "none"
    /\ fx_phase' = IF fx_pending = <<>> THEN "finished" ELSE "idle"
    /\ UNCHANGED <<fx_pending, fx_outcome, fx_seen, fx_finished, cuVars, uhVars>>

(***************************************************************************)
(* The specifications: one per component, and the three together.          *)
(***************************************************************************)
Init ==
    /\ cu_event = [has_body |-> FALSE, body |-> BodyNone]
    /\ cu_response = NoResponse
    /\ cu_logs = <<>>
    /\ pc = "idle"
    /\ event = NoEvent
    /\ context = [has_request_id |-> TRUE]
    /\ correlation_id = <<>>
    /\ request = NoRequest
    /\ user_data = NoUserData
    /\ metric_set = NoMetrics
    /\ flushed = NoMetrics
    /\ logs = <<>>
    /\ trace = {}
    /\ result = NoResult
    /\ uuid_issued = <<>>
    /\ invocations = 0
    /\ fx_pending = <<>>
    /\ fx_current = "none"
    /\ fx_phase = "collect"
    /\ fx_cache = [f \in Fixtures |-> Dead]
    /\ fx_outcome = [t \in Tests |-> "none"]
    /\ fx_seen = [t \in Tests |-> NotRun]
    /\ fx_finished = <<>>

NextCreateUser == LambdaHandler

NextUserLookup ==
    \/ Invoke
    \/ ResolveCorrelation
    \/ LogRequestReceived
    \/ AddRequestCount
    \/ ParseAndValidate
    \/ GetUserFromDatabase
    \/ ReturnSuccess
    \/ ExceptValidationError
    \/ ExceptException
    \/ LogMetricsFlush

NextFixtures ==
    \/ Collect
    \/ StartTest
    \/ SetupFixture
    \/ CallTest
    \/ Teardown

Next == NextCreateUser \/ NextUserLookup \/ NextFixtures

SpecCreateUser == Init /\ [][NextCreateUser]_vars
SpecUserLookup == Init /\ [][NextUserLookup]_vars
SpecFixtures == Init /\ [][NextFixtures]_vars
Spec == Init /\ [][Next]_vars

(***************************************************************************)
(* Claims about the create-user handler, under SpecCreateUser.              *)
(***************************************************************************)
CuReturned == cu_response # NoResponse

\* What json.loads made of the body of the latest event.
CuLoaded == JsonLoads(EventBody(cu_event))

CuIsObject == CuLoaded.exc.type = "none" /\ CuLoaded.value.k = "dict"

CuItems == CuLoaded.value.items

\* Decoding the response body's user object gives back the payload's fields.
CuEchoes ==
    \A f \in {"name", "email", "age"} :
        JsonLoadsValue(cu_response.body.user[f]) = CuItems[f]

CuCreated ==
    /\ cu_response.statusCode = 201
    /\ cu_response.body.keys = {"message", "user"}
    /\ cu_response.body.message = "User created successfully"

\* C1 as stated: for every payload the User model accepts, the handler
\* returns 201 with message "User created successfully" and the decoded user
\* object carries the original name, email and age unchanged.
C1_EveryAcceptedPayloadEchoed ==
    (CuReturned /\ CuIsObject /\ User(CuLoaded.value).exc.type = "none")
        => (CuCreated /\ CuEchoes)

\* C1 amended: for every payload whose name and email are JSON strings and
\* whose age is a JSON integer, the handler returns 201 with message "User
\* created successfully" and the decoded user object carries the original
\* name, email and age unchanged.
C1_TypedPayloadEchoed ==
    (/\ CuReturned
     /\ CuIsObject
     /\ {"name", "email", "age"} \subseteq DOMAIN CuItems
     /\ CuItems["name"].k = "str"
     /\ CuItems["email"].k = "str"
     /\ CuItems["age"].k = "int")
        => (CuCreated /\ CuEchoes)

C1_Witness ==
    /\ CuReturned
    /\ CuIsObject
    /\ {"name", "email", "age"} \subseteq DOMAIN CuItems
    /\ CuItems["name"] = JStr(<<"a", "\"", "\\">>)
    /\ CuItems["email"].k = "str"
    /\ CuItems["age"] = JInt(0 - 7)
    /\ cu_response.statusCode = 201
    /\ JsonLoadsValue(cu_response.body.user["age"]) = JInt(0 - 7)

\* C2: every body that decodes to a JSON object lacking name, email or age
\* (the empty object included) gets status 400 with error "Invalid input" and
\* a non-empty details list, never 201.
C2_MissingFieldIs400 ==
    (/\ CuReturned
     /\ CuIsObject
     /\ ~({"name", "email", "age"} \subseteq DOMAIN CuItems))
        => /\ cu_response.statusCode = 400
           /\ cu_response.statusCode # 201
           /\ cu_response.body.keys = {"error", "details"}
           /\ cu_response.body.error = "Invalid input"
           /\ Len(cu_response.body.details) > 0
           /\ \A f \in {"name", "email", "age"} \ DOMAIN CuItems :
                \E i \in 1..Len(cu_response.body.details) :
                    cu_response.body.details[i] = [type |-> "missing", loc |-> f]

C2_Witness ==
    /\ CuReturned
    /\ cu_event.has_body
    /\ CuIsObject
    /\ DOMAIN CuItems = {}
    /\ cu_response.statusCode = 400
    /\ Len(cu_response.body.details) = 3

\* C3: a body that is not JSON text, a body that is null, and a JSON body
\* that is not an object all get status 500 with body exactly
\* {error: "Internal server error"}; the text of the underlying error is
\* logged and appears nowhere in the response.
C3_OtherFailuresAre500 ==
    (CuReturned /\ cu_event.has_body /\ ~CuIsObject)
        => /\ cu_response.statusCode = 500
           /\ cu_response.body.keys = {"error"}
           /\ cu_response.body.error = "Internal server error"
           /\ Len(cu_logs) = 1
           /\ cu_logs[1].level = "ERROR"
           /\ cu_logs[1].extra # ""
           /\ cu_response.body.error # cu_logs[1].extra
           /\ cu_response.body.message # cu_logs[1].extra

C3_Witness ==
    /\ CuReturned
    /\ cu_event.has_body
    /\ cu_event.body = BodyNotJson
    /\ cu_response.statusCode = 500
    /\ cu_logs[1].extra = "Expecting value: line 1 column 1 (char 0)"

(***************************************************************************)
(* Claims about the user-lookup handler, under SpecUserLookup.              *)
(***************************************************************************)
Done == pc = "done"

ReturnedStatus(n) == result.kind = "response" /\ result.response.statusCode = n

\* The path parameter user_id as the event gives it: a str of 1 to 50
\* characters, or absent or empty.
ValidUserId ==
    /\ event.pathParameters.k = "dict"
    /\ event.pathParameters.user_id.k = "str"
    /\ Len(event.pathParameters.user_id.s) \in MinLength..MaxLength

UserIdAbsentOrEmpty ==
    \/ event.pathParameters.k \in {"absent", "NoneType"}
    \/ /\ event.pathParameters.k = "dict"
       /\ event.pathParameters.user_id \in {Absent, JStr(<<>>)}

\* get_user_from_database has run in this invocation: a trace annotation,
\* database-namespace metadata, its debug log line or its return value.
DbCalled ==
    \/ trace # {}
    \/ user_data.set
    \/ \E i \in 1..Len(logs) : logs[i].message = "Fetching user from database"

\* C4: no error escapes the handler: every invocation, whatever the event
\* and context (headers, requestContext or pathParameters absent or null
\* included), ends by returning a response with status 200, 400 or 500.
C4_NoErrorEscapes ==
    Done => (result.kind = "response"
             /\ result.response.statusCode \in {200, 400, 500})

\* C5: given a valid user_id, the response header X-Correlation-Id is the
\* request's x-correlation-id header when supplied, else the gateway
\* requestId, else a freshly generated non-empty identifier that no other
\* invocation was given.
C5_CorrelationHeader ==
    (Done /\ ValidUserId)
        => /\ result.kind = "response"
           /\ LET got == result.response.headers.correlation
              IN IF event.headers.k = "dict" /\ Truthy(event.headers.corr)
                 THEN got = event.headers.corr.v
                 ELSE IF event.requestContext.k = "dict"
                         /\ Truthy(event.requestContext.requestId)
                 THEN got = event.requestContext.requestId.v
                 ELSE /\ Len(got) > 0
                      /\ Len(uuid_issued) > 0
                      /\ got = uuid_issued[Len(uuid_issued)]
                      /\ \A i \in 1..(Len(uuid_issued) - 1) : uuid_issued[i] # got

\* C6: given user_id absent or empty, the invocation returns 400 and
\* publishes ValidationErrors once, RequestCount once, and neither
\* SuccessCount nor ServerErrors.
C6_MissingUserIdCounted ==
    (Done /\ UserIdAbsentOrEmpty)
        => /\ ReturnedStatus(400)
           /\ flushed = [NoMetrics EXCEPT !["RequestCount"] = 1,
                                          !["ValidationErrors"] = 1]

\* C7: the invocation returns 200 exactly when user_id has 1 to 50
\* characters, and otherwise 400 with error "Invalid request"; on 200 the
\* body is {user_id: the requested id, name: "John Doe", email:
\* "john@example.com", status: "active"} with Content-Type application/json.
C7_StatusByUserIdLength ==
    Done =>
        IF ValidUserId
        THEN /\ ReturnedStatus(200)
             /\ result.response.body =
                    UhBody({"user_id", "name", "email", "status"},
                           event.pathParameters.user_id.s, "John Doe",
                           "john@example.com", "active", "", <<>>)
             /\ result.response.headers.content_type = "application/json"
        ELSE /\ ReturnedStatus(400)
             /\ result.response.body.error = "Invalid request"

\* C9: every invocation publishes RequestCount once and exactly one of
\* SuccessCount, ValidationErrors, ServerErrors once, the one matching the
\* status it returned (200, 400, 500).
C9_OneOutcomeMetric ==
    Done =>
        /\ result.kind = "response"
        /\ flushed["RequestCount"] = 1
        /\ flushed["SuccessCount"] = (IF ReturnedStatus(200) THEN 1 ELSE 0)
        /\ flushed["ValidationErrors"] = (IF ReturnedStatus(400) THEN 1 ELSE 0)
        /\ flushed["ServerErrors"] = (IF ReturnedStatus(500) THEN 1 ELSE 0)
        /\ flushed["SuccessCount"] + flushed["ValidationErrors"]
             + flushed["ServerErrors"] = 1

\* C10: get_user_from_database is called only after UserRequest validation
\* of user_id has succeeded, and an invocation that returns 400 has not
\* called it (no trace annotation, no database metadata, no lookup log).
C10_NoLookupWithoutValidation ==
    /\ DbCalled =>
          /\ request.ok
          /\ ValidUserId
          /\ request.user_id = event.pathParameters.user_id.s
    /\ ReturnedStatus(400) => ~DbCalled
    /\ pc \in {"except_validation", "except_exception"} => ~DbCalled

C10_Witness ==
    /\ Done
    /\ ReturnedStatus(400)
    /\ event.pathParameters.k = "dict"
    /\ event.pathParameters.user_id = JStr(Repeat("a", MaxLength + 1))
    /\ flushed["ValidationErrors"] = 1
    /\ ~DbCalled

(***************************************************************************)
(* Claim about the fixture scopes, under SpecFixtures.                      *)
(***************************************************************************)
Before(a, b) ==
    \E i, j \in 1..Len(fx_finished) :
        i < j /\ fx_finished[i] = a /\ fx_finished[j] = b

\* C8: in every order of the tests, each test that takes the function-scoped
\* counter is given count 0 (and so passes) whatever earlier tests did to
\* theirs; the module-scoped table is one instance for the whole module, so
\* the item test_put_item puts is there for test_get_item when it runs later.
C8_FixtureScopes ==
    /\ \A t \in {"test_increment_1", "test_increment_2"} :
          /\ fx_seen[t] \in {NotRun, 0}
          /\ fx_outcome[t] # "failed"
    /\ Before("test_put_item", "test_get_item") =>
          /\ fx_outcome["test_get_item"] = "passed"
          /\ fx_seen["test_get_item"] = 1
    /\ (fx_outcome["test_put_item"] # "none" /\ fx_phase # "finished") =>
          /\ fx_cache["dynamodb_table"].live
          /\ [id |-> "1", name |-> "Alice"] \in fx_cache["dynamodb_table"].items

C8_Witness ==
    /\ fx_phase = "finished"
    /\ Before("test_increment_1", "test_increment_2")
    /\ Before("test_put_item", "test_add_user")
    /\ Before("test_add_user", "test_get_item")
    /\ fx_seen["test_increment_2"] = 0
    /\ fx_outcome["test_increment_2"] = "passed"
    /\ fx_outcome["test_get_item"] = "passed"

====
